---- MODULE Spec2Model ----
(***************************************************************************)
(* Model of the per-guild playback queue of music-bot-rs                   *)
(* (src/src/main.rs, src/src/commands.rs): the queue registry              *)
(* (PerServerQueue), the guild queue (ServerQueue), the chat commands      *)
(* summon, play, skip, now_playing and queue, and the end-of-track         *)
(* callback (SongEndNotifier::act).  Every .await of the source at which   *)
(* a guard is acquired or a network call is made is a step boundary.       *)
(***************************************************************************)
EXTENDS Integers, Sequences, FiniteSets, TLC

\* ------------------------------------------------------------------ bounds
MaxSongs == 3

\* The longest track duration formatted, in seconds.
MaxSeconds == 3725

Tasks == {1, 2}
Guilds == {1, 2}
Songs == 1..MaxSongs

\* The Call objects the manager creates for a guild, one after the other: a Call
\* the manager has dropped is not replaced within a run.
CallGens == {1}

\* A guild gets at most one queue object per task that can race on its creation.
MaxObjs == Cardinality(Tasks)
Objs == Guilds \X (1..MaxObjs)
Calls == Guilds \X CallGens

NoObj == <<>>
NoCall == <<>>
NoSong == 0
NoOne == <<>>

TaskId(t) == <<"task", t>>
CbId(s) == <<"cb", s>>

VARIABLES
    managerCall,  \* songbird manager: guild -> its Call, or NoCall
    callsMade,    \* guild -> number of Call objects created so far
    callLock,     \* Call -> holder of its Mutex guard
    map,          \* PerServerQueue.map: guild -> queue object, or NoObj
    objsMade,     \* guild -> number of ServerQueue objects created so far
    qLock,        \* queue object -> holder of its Mutex guard
    now_playing,  \* queue object -> ServerQueue.now_playing (a song or NoSong)
    queue,        \* queue object -> ServerQueue.queue
    task,         \* command task -> its command, position and locals
    song,         \* song -> its Song fields and the state of its end notifier
    nextSong,     \* next unused song id
    enqLog,       \* history: queue object -> songs in the order push_back completed
    promoted,     \* history: queue object -> songs in the order shift_queue promoted them
    guilds,       \* the guilds whose members send commands in this run
    duration,     \* Song.duration handed to format_duration, in whole seconds
    formatted     \* the String format_duration returned for it ("" before the call)

vars == <<managerCall, callsMade, callLock, map, objsMade, qLock, now_playing,
          queue, task, song, nextSong, enqLog, promoted, guilds, duration, formatted>>

IdleTask ==
    [cmd |-> "none", pc |-> "idle", g |-> 0, samevc |-> TRUE, song |-> NoSong,
     q |-> NoObj, call |-> NoCall]

\* A command underway: its name, its position, the guild of its message.
Running(cmd, pc, g) == [IdleTask EXCEPT !.cmd = cmd, !.pc = pc, !.g = g]

NewSong ==
    [guild |-> 0, handle |-> FALSE, starts |-> 0, pos |-> -1, errs |-> 0,
     fail |-> "no", cb |-> "none", q |-> NoObj, call |-> NoCall]

InitProgram(gs) ==
    /\ guilds = gs
    /\ managerCall = [g \in Guilds |-> NoCall]
    /\ callsMade = [g \in Guilds |-> 0]
    /\ callLock = [c \in Calls |-> NoOne]
    /\ map = [g \in Guilds |-> NoObj]
    /\ objsMade = [g \in Guilds |-> 0]
    /\ qLock = [o \in Objs |-> NoOne]
    /\ now_playing = [o \in Objs |-> NoSong]
    /\ queue = [o \in Objs |-> <<>>]
    /\ task = [t \in Tasks |-> IdleTask]
    /\ song = [s \in Songs |-> NewSong]
    /\ nextSong = 1
    /\ enqLog = [o \in Objs |-> <<>>]
    /\ promoted = [o \in Objs |-> <<>>]

InitWith(gs) == InitProgram(gs) /\ duration = 0 /\ formatted = ""

\* The state after main has built the client: an empty registry, no call.
Init == InitWith({1})

InitGuilds == InitWith(Guilds)

\* ------------------------------------------------------------ pure helpers

\* A slip: pop_back in place of pop_front.
shift_queue_back(np, qu) ==
    IF qu = <<>> THEN [now_playing |-> NoSong, queue |-> <<>>]
    ELSE [now_playing |-> qu[Len(qu)], queue |-> SubSeq(qu, 1, Len(qu) - 1)]

\* A slip: two tracks are popped, the first of them is lost.
shift_queue_twice(np, qu) ==
    IF qu = <<>> THEN [now_playing |-> NoSong, queue |-> <<>>]
    ELSE IF Tail(qu) = <<>> THEN [now_playing |-> Head(qu), queue |-> <<>>]
    ELSE [now_playing |-> Head(Tail(qu)), queue |-> Tail(Tail(qu))]

\* A slip: front() in place of pop_front(), the head is not removed from pending.
shift_queue_peek(np, qu) ==
    IF qu = <<>> THEN [now_playing |-> NoSong, queue |-> <<>>]
    ELSE [now_playing |-> Head(qu), queue |-> qu]

\* ServerQueue::shift_queue: now_playing = queue.pop_front()
shift_queue(np, qu) ==
    IF qu = <<>> THEN [now_playing |-> NoSong, queue |-> <<>>]
    ELSE [now_playing |-> Head(qu), queue |-> Tail(qu)]

\* A slip: the new track is put at the front of the pending list.
push_front(qu, s) == <<s>> \o qu

\* VecDeque::push_back in play
push_back(qu, s) == Append(qu, s)

\* A slip: the position is reported without the +1.
PositionFromZero(qu) == Len(qu)

\* "Position in queue" field of the "Added to queue" embed
PositionInQueue(qu) == Len(qu) + 1

\* A slip: the lookup ignores the guild id and returns the first guild's entry.
MapGetFirst(m, g) == m[1]

\* HashMap::get(guild_id) on the registry map
MapGet(m, g) == m[g]

\* HashMap::insert(*guild_id, ...) on the registry map
MapInsert(m, g, o) == [m EXCEPT ![g] = o]

\* Strong references to a Call: the manager's, those of the command tasks that
\* obtained it, and those of the callbacks that upgraded their Weak.
HasStrong(c) ==
    \/ \E g \in Guilds : managerCall[g] = c
    \/ \E t \in Tasks : task[t].call = c
    \/ \E s \in Songs : song[s].call = c /\ song[s].cb \in {"wait_queue", "resolve", "wait_call"}

\* A slip: the notifier keeps the Call alive (an Arc where the code has a Weak).
UpgradeAlways(c) == TRUE

\* Weak::upgrade in SongEndNotifier::act
Upgrade(c) == HasStrong(c)

\* A track's End event is due: it played to its end, or a skip stopped it.
Ended == {"ended", "stopped"}

\* Tracks that Call::stop (Driver::stop) ends: every track playing on the call.
PlayingOn(c) == {s \in Songs : song[s].cb = "playing" /\ song[s].call = c}

\* call.play_source + track.add_event(End, SongEndNotifier) + song.handle.replace
Started(sg, s, o, c) ==
    [sg EXCEPT ![s].starts = @ + 1, ![s].handle = TRUE, ![s].cb = "playing",
               ![s].q = o, ![s].call = c]


\* A slip: the ServerQueue is shared without its Mutex.
QueueGuardIgnored(o) == TRUE

\* server_queue.lock().await returns when no other holder has the guard.
QueueGuardFree(o) == qLock[o] = NoOne

\* Dropping every MutexGuard a holder owns in one of the two lock families.
Release(lock, who) == [x \in DOMAIN lock |-> IF lock[x] = who THEN NoOne ELSE lock[x]]

\* A command returns: its locals (Arcs and guards) are dropped.
Finish(t) == [task EXCEPT ![t] = IdleTask]

\* ------------------------------------------------- PerServerQueue (registry)

\* queue_or_create, first half: map.read(), contains_key, and the else branch.
QocRead(t) ==
    /\ task[t].pc = "qoc"
    /\ IF MapGet(map, task[t].g) # NoObj
         THEN task' = [task EXCEPT ![t].q = MapGet(map, task[t].g), ![t].pc = "lock_queue"]
         ELSE task' = [task EXCEPT ![t].pc = "qoc_write"]
    /\ UNCHANGED <<managerCall, callsMade, callLock, map, objsMade, qLock, now_playing,
                   queue, song, nextSong, enqLog, promoted, guilds, duration, formatted>>

\* queue_or_create, second half: drop(map), map.write(), insert, get.
QocWrite(t) ==
    /\ task[t].pc = "qoc_write"
    /\ objsMade[task[t].g] < MaxObjs
    /\ LET g == task[t].g
           o == <<g, objsMade[g] + 1>>
           m == MapInsert(map, g, o)
       IN /\ objsMade' = [objsMade EXCEPT ![g] = @ + 1]
          /\ map' = m
          /\ MapGet(m, g) # NoObj
          /\ task' = [task EXCEPT ![t].q = MapGet(m, g), ![t].pc = "lock_queue"]
    /\ UNCHANGED <<managerCall, callsMade, callLock, qLock, now_playing, queue, song,
                   nextSong, enqLog, promoted, guilds, duration, formatted>>

\* ------------------------------------------------------------------ summon

\* summon: join the requester's voice channel (manager.join), or refuse.
Summon(t, g, vc) ==
    /\ task[t].pc = "idle"
    /\ IF vc # "none" /\ managerCall[g] = NoCall
         THEN /\ callsMade[g] + 1 \in CallGens
              /\ callsMade' = [callsMade EXCEPT ![g] = @ + 1]
              /\ managerCall' = [managerCall EXCEPT ![g] = <<g, callsMade[g] + 1>>]
         ELSE UNCHANGED <<managerCall, callsMade>>
    /\ UNCHANGED <<task, callLock, map, objsMade, qLock, now_playing, queue, song, nextSong,
                   enqLog, promoted, guilds, duration, formatted>>

\* -------------------------------------------------------------------- play

\* play, lines 136-154: manager.get, else join the requester's channel, else refuse.
PlayBegin(t, g, vc) ==
    /\ task[t].pc = "idle"
    /\ IF managerCall[g] # NoCall
         THEN /\ task' = [task EXCEPT ![t] = [Running("play", "lock_call", g) EXCEPT
                              !.samevc = (vc = "same"), !.call = managerCall[g]]]
              /\ UNCHANGED <<managerCall, callsMade>>
         ELSE IF vc = "none"
           THEN UNCHANGED <<task, managerCall, callsMade>>
           ELSE /\ vc = "same"
                /\ callsMade[g] + 1 \in CallGens
                /\ callsMade' = [callsMade EXCEPT ![g] = @ + 1]
                /\ managerCall' = [managerCall EXCEPT ![g] = <<g, callsMade[g] + 1>>]
                /\ task' = [task EXCEPT ![t] = [Running("play", "lock_call", g) EXCEPT
                              !.call = <<g, callsMade[g] + 1>>]]
    /\ UNCHANGED <<callLock, map, objsMade, qLock, now_playing, queue, song, nextSong,
                   enqLog, promoted, guilds, duration, formatted>>

\* play, lines 158-163: call_lock.lock().await, then the same-channel check, which
\* only sends a message.
PlayLockCall(t) ==
    /\ task[t].cmd = "play" /\ task[t].pc = "lock_call"
    /\ callLock[task[t].call] = NoOne
    /\ callLock' = [callLock EXCEPT ![task[t].call] = TaskId(t)]
    /\ task' = [task EXCEPT ![t].pc = "search"]
    /\ UNCHANGED <<managerCall, callsMade, map, objsMade, qLock, now_playing, queue,
                   song, nextSong, enqLog, promoted, guilds, duration, formatted>>

\* play, line 166 and 210-212: get_song returns a Song or None.
PlaySearch(t, found) ==
    /\ task[t].cmd = "play" /\ task[t].pc = "search"
    /\ IF found
         THEN /\ nextSong <= MaxSongs
              /\ song' = [song EXCEPT ![nextSong] = [NewSong EXCEPT !.guild = task[t].g]]
              /\ nextSong' = nextSong + 1
              /\ task' = [task EXCEPT ![t].song = nextSong, ![t].pc = "qoc"]
              /\ UNCHANGED callLock
         ELSE /\ task' = Finish(t)
              /\ callLock' = Release(callLock, TaskId(t))
              /\ UNCHANGED <<song, nextSong>>
    /\ UNCHANGED <<managerCall, callsMade, map, objsMade, qLock, now_playing, queue,
                   enqLog, promoted, guilds, duration, formatted>>

\* play, lines 171-173: server_queue_lock.lock().await and the test of now_playing.
PlayLockQueue(t) ==
    /\ task[t].cmd = "play" /\ task[t].pc = "lock_queue"
    /\ QueueGuardFree(task[t].q)
    /\ qLock' = [qLock EXCEPT ![task[t].q] = TaskId(t)]
    /\ task' = [task EXCEPT ![t].pc =
                  IF now_playing[task[t].q] # NoSong THEN "enqueue" ELSE "resolve"]
    /\ UNCHANGED <<managerCall, callsMade, callLock, map, objsMade, now_playing, queue,
                   song, nextSong, enqLog, promoted, guilds, duration, formatted>>

\* play, lines 174-201: the "Added to queue" message, then queue.push_back(song).
PlayEnqueue(t) ==
    /\ task[t].cmd = "play" /\ task[t].pc = "enqueue"
    /\ LET o == task[t].q
           s == task[t].song
       IN /\ song' = [song EXCEPT ![s].pos = PositionInQueue(queue[o])]
          /\ queue' = [queue EXCEPT ![o] = push_back(@, s)]
          /\ enqLog' = [enqLog EXCEPT ![o] = Append(@, s)]
    /\ task' = Finish(t)
    /\ qLock' = Release(qLock, TaskId(t))
    /\ callLock' = Release(callLock, TaskId(t))
    /\ UNCHANGED <<managerCall, callsMade, map, objsMade, now_playing, nextSong, promoted, guilds, duration, formatted>>

\* A slip: the early return at line 204 is missing, so the track that failed to
\* start is recorded as current.
PlaySourceFailedKeepsSong(t) ==
    /\ song' = [song EXCEPT ![task[t].song].errs = @ + 1, ![task[t].song].fail = "play"]
    /\ task' = Finish(t)
    /\ qLock' = Release(qLock, TaskId(t))
    /\ callLock' = Release(callLock, TaskId(t))
    /\ now_playing' = [now_playing EXCEPT ![task[t].q] = task[t].song]
    /\ UNCHANGED queue

\* play_song, lines 222-230 reached from play: as_input fails, the error is said,
\* play_song returns true and play returns at line 204.
PlaySourceFailed(t) ==
    /\ song' = [song EXCEPT ![task[t].song].errs = @ + 1, ![task[t].song].fail = "play"]
    /\ task' = Finish(t)
    /\ qLock' = Release(qLock, TaskId(t))
    /\ callLock' = Release(callLock, TaskId(t))
    /\ UNCHANGED <<now_playing, queue>>

\* play_song, lines 222-254 reached from play with the held call guard.
PlayResolve(t, ok) ==
    /\ task[t].cmd = "play" /\ task[t].pc = "resolve"
    /\ IF ok
         THEN /\ song' = [Started(song, task[t].song, task[t].q, task[t].call)
                             EXCEPT ![task[t].song].pos = 0]
              /\ task' = [task EXCEPT ![t].pc = "playing_msg"]
              /\ UNCHANGED <<qLock, callLock, now_playing, queue>>
         ELSE PlaySourceFailed(t)
    /\ UNCHANGED <<managerCall, callsMade, map, objsMade, nextSong, enqLog, promoted, guilds, duration, formatted>>

\* play_song line 256-258 and play line 208: the "Playing" message, the call guard
\* dropped with play_song's return, now_playing = Some(song), the queue guard dropped.
PlayFinish(t) ==
    /\ task[t].cmd = "play" /\ task[t].pc = "playing_msg"
    /\ now_playing' = [now_playing EXCEPT ![task[t].q] = task[t].song]
    /\ task' = Finish(t)
    /\ qLock' = Release(qLock, TaskId(t))
    /\ callLock' = Release(callLock, TaskId(t))
    /\ UNCHANGED <<managerCall, callsMade, map, objsMade, queue, song, nextSong,
                   enqLog, promoted, guilds, duration, formatted>>


\* -------------------------------------------------------------------- skip

\* Driver::stop called through the held Call guard: every track on the call ends.
StopAll(sg, c) ==
    [s \in Songs |-> IF s \in PlayingOn(c) THEN [sg[s] EXCEPT !.cb = "stopped"] ELSE sg[s]]

\* A slip: skip clears the current track itself (ServerQueue::skip).
SkipClearsNowPlaying(np) == NoSong

\* What skip leaves in now_playing: it only borrows it (line 352).
SkipNowPlaying(np) == np

\* skip, lines 336-344 and 359-361: manager.get, else "Not in a voice channel".
SkipBegin(t, g) ==
    /\ task[t].pc = "idle"
    /\ IF managerCall[g] = NoCall
         THEN UNCHANGED task
         ELSE task' = [task EXCEPT ![t] = [Running("skip", "lock_call", g) EXCEPT
                          !.call = managerCall[g]]]
    /\ UNCHANGED <<managerCall, callsMade, callLock, map, objsMade, qLock, now_playing,
                   queue, song, nextSong, enqLog, promoted, guilds, duration, formatted>>

\* skip, lines 345-346: handler_lock.lock().await, handler.stop().
SkipLockCall(t) ==
    /\ task[t].cmd = "skip" /\ task[t].pc = "lock_call"
    /\ callLock[task[t].call] = NoOne
    /\ callLock' = [callLock EXCEPT ![task[t].call] = TaskId(t)]
    /\ song' = StopAll(song, task[t].call)
    /\ task' = [task EXCEPT ![t].pc = "qoc"]
    /\ UNCHANGED <<managerCall, callsMade, map, objsMade, qLock, now_playing, queue,
                   nextSong, enqLog, promoted, guilds, duration, formatted>>

\* skip, lines 351-358: queue_lock.lock().await, the Stop command sent to the
\* current track's handle, the reply, and both guards dropped at the return.
\* handle.unwrap() panics on a current track without a handle, and send fails with
\* TrackError::Finished on a track the driver has dropped: either way the command
\* ends there, its guards dropped, and the queue is as it was.
SkipLockQueue(t) ==
    /\ task[t].cmd = "skip" /\ task[t].pc = "lock_queue"
    /\ QueueGuardFree(task[t].q)
    /\ LET o == task[t].q
           n == now_playing[o]
       IN /\ now_playing' = [now_playing EXCEPT ![o] = SkipNowPlaying(n)]
          /\ IF n # NoSong /\ song[n].handle /\ song[n].cb = "playing"
               THEN song' = [song EXCEPT ![n].cb = "stopped"]
               ELSE UNCHANGED song
    /\ task' = Finish(t)
    /\ callLock' = Release(callLock, TaskId(t))
    /\ UNCHANGED <<managerCall, callsMade, map, objsMade, qLock, queue, nextSong,
                   enqLog, promoted, guilds, duration, formatted>>

\* ------------------------------------------------------ now_playing, queue

\* now_playing lines 72-80, 112-114; queue lines 291-299.  The two commands take
\* the same steps and differ in the text they send.
DisplayBegin(t, g) ==
    /\ task[t].pc = "idle"
    /\ IF managerCall[g] = NoCall
         THEN UNCHANGED task
         ELSE task' = [task EXCEPT ![t] = Running("display", "qoc", g)]
    /\ UNCHANGED <<managerCall, callsMade, callLock, map, objsMade, qLock, now_playing,
                   queue, song, nextSong, enqLog, promoted, guilds, duration, formatted>>

\* now_playing line 83, queue line 302: server_queue_lock.lock().await.
DisplayLockQueue(t) ==
    /\ task[t].cmd = "display" /\ task[t].pc = "lock_queue"
    /\ QueueGuardFree(task[t].q)
    /\ qLock' = [qLock EXCEPT ![task[t].q] = TaskId(t)]
    /\ task' = [task EXCEPT ![t].pc = "send"]
    /\ UNCHANGED <<managerCall, callsMade, callLock, map, objsMade, now_playing, queue,
                   song, nextSong, enqLog, promoted, guilds, duration, formatted>>

\* now_playing lines 84-111, queue lines 304-327: the reply is built and sent with
\* the guard still held; the guard is dropped at the end of the block.
DisplaySend(t) ==
    /\ task[t].cmd = "display" /\ task[t].pc = "send"
    /\ task' = Finish(t)
    /\ qLock' = Release(qLock, TaskId(t))
    /\ UNCHANGED <<managerCall, callsMade, callLock, map, objsMade, now_playing, queue,
                   song, nextSong, enqLog, promoted, guilds, duration, formatted>>

\* ------------------------------------------ transport and SongEndNotifier

\* The transport delivers TrackEvent::End for a started track, once.
TrackEnd(s) ==
    /\ song[s].cb = "playing"
    /\ song' = [song EXCEPT ![s].cb = "ended"]
    /\ UNCHANGED <<managerCall, callsMade, callLock, map, objsMade, qLock, now_playing,
                   queue, task, nextSong, enqLog, promoted, guilds, duration, formatted>>

\* The songbird manager drops its Call for the guild (the voice session is torn down).
Teardown(g) ==
    /\ managerCall[g] # NoCall
    /\ managerCall' = [managerCall EXCEPT ![g] = NoCall]
    /\ UNCHANGED <<callsMade, callLock, map, objsMade, qLock, now_playing, queue, task,
                   song, nextSong, enqLog, promoted, guilds, duration, formatted>>

\* act, line 274: self.call_lock.upgrade(); None ends the callback at once.
ActUpgrade(s) ==
    /\ song[s].cb \in Ended
    /\ song' = [song EXCEPT ![s].cb = IF Upgrade(song[s].call) THEN "wait_queue" ELSE "stale"]
    /\ UNCHANGED <<managerCall, callsMade, callLock, map, objsMade, qLock, now_playing,
                   queue, task, nextSong, enqLog, promoted, guilds, duration, formatted>>

\* act, lines 275-278: server_queue.lock().await, shift_queue, test of now_playing.
ActShift(s) ==
    /\ song[s].cb = "wait_queue"
    /\ QueueGuardFree(song[s].q)
    /\ LET o == song[s].q
           r == shift_queue(now_playing[o], queue[o])
       IN /\ now_playing' = [now_playing EXCEPT ![o] = r.now_playing]
          /\ queue' = [queue EXCEPT ![o] = r.queue]
          /\ IF r.now_playing = NoSong
               THEN /\ song' = [song EXCEPT ![s].cb = "done"]
                    /\ UNCHANGED <<qLock, promoted>>
               ELSE /\ song' = [song EXCEPT ![s].cb = "resolve"]
                    /\ qLock' = [qLock EXCEPT ![o] = CbId(s)]
                    /\ promoted' = [promoted EXCEPT ![o] = Append(@, r.now_playing)]
    /\ UNCHANGED <<managerCall, callsMade, callLock, map, objsMade, task, nextSong, enqLog, guilds, duration, formatted>>

\* A slip: after the failed start the callback shifts the queue once more, which
\* drops the failed track and makes the next pending track current.
ActSourceFailedAdvances(s) ==
    LET o == song[s].q
        n == now_playing[o]
        r == shift_queue(n, queue[o])
    IN /\ song' = [song EXCEPT ![s].cb = "done", ![n].errs = @ + 1, ![n].fail = "callback"]
       /\ qLock' = Release(qLock, CbId(s))
       /\ now_playing' = [now_playing EXCEPT ![o] = r.now_playing]
       /\ queue' = [queue EXCEPT ![o] = r.queue]
       /\ UNCHANGED promoted

\* play_song, lines 224-229 reached from act: as_input fails, the error is said,
\* play_song returns and act returns; the promoted track stays in now_playing.
ActSourceFailed(s) ==
    LET n == now_playing[song[s].q]
    IN /\ song' = [song EXCEPT ![s].cb = "done", ![n].errs = @ + 1, ![n].fail = "callback"]
       /\ qLock' = Release(qLock, CbId(s))
       /\ UNCHANGED <<now_playing, queue, promoted>>

\* play_song, lines 222-230 reached from act: as_input for the promoted track.
ActResolve(s, ok) ==
    /\ song[s].cb = "resolve"
    /\ IF ok
         THEN /\ song' = [song EXCEPT ![s].cb = "wait_call"]
              /\ UNCHANGED <<qLock, now_playing, queue, promoted>>
         ELSE ActSourceFailed(s)
    /\ UNCHANGED <<managerCall, callsMade, callLock, map, objsMade,
                   task, nextSong, enqLog, guilds, duration, formatted>>

\* play_song, lines 234-258 reached from act: call_lock.lock().await, play_source,
\* add_event, handle.replace, the message, and both guards dropped on return.
ActStart(s) ==
    /\ song[s].cb = "wait_call"
    /\ callLock[song[s].call] = NoOne
    /\ LET n == now_playing[song[s].q]
       IN song' = [Started(song, n, song[s].q, song[s].call) EXCEPT ![s].cb = "done"]
    /\ qLock' = Release(qLock, CbId(s))
    /\ UNCHANGED <<managerCall, callsMade, callLock, map, objsMade, now_playing, queue,
                   task, nextSong, enqLog, promoted, guilds, duration, formatted>>

\* ------------------------------------------------------------ specification

VoiceStates == {"none", "same", "other"}

Next ==
    \/ \E t \in Tasks, g \in guilds, vc \in VoiceStates : Summon(t, g, vc)
    \/ \E t \in Tasks, g \in guilds, vc \in VoiceStates : PlayBegin(t, g, vc)
    \/ \E t \in Tasks : PlayLockCall(t)
    \/ \E t \in Tasks, found \in BOOLEAN : PlaySearch(t, found)
    \/ \E t \in Tasks : QocRead(t)
    \/ \E t \in Tasks : QocWrite(t)
    \/ \E t \in Tasks : PlayLockQueue(t)
    \/ \E t \in Tasks : PlayEnqueue(t)
    \/ \E t \in Tasks, ok \in BOOLEAN : PlayResolve(t, ok)
    \/ \E t \in Tasks : PlayFinish(t)
    \/ \E t \in Tasks, g \in guilds : SkipBegin(t, g)
    \/ \E t \in Tasks : SkipLockCall(t)
    \/ \E t \in Tasks : SkipLockQueue(t)
    \/ \E t \in Tasks, g \in guilds : DisplayBegin(t, g)
    \/ \E t \in Tasks : DisplayLockQueue(t)
    \/ \E t \in Tasks : DisplaySend(t)
    \/ \E s \in Songs : TrackEnd(s)
    \/ \E g \in guilds : Teardown(g)
    \/ \E s \in Songs : ActUpgrade(s)
    \/ \E s \in Songs : ActShift(s)
    \/ \E s \in Songs, ok \in BOOLEAN : ActResolve(s, ok)
    \/ \E s \in Songs : ActStart(s)

Spec == Init /\ [][Next]_vars

\* Two guilds served at once, by play commands, skips and end-of-track callbacks.
\* The requester sits in the bot's channel: the same-channel check of play (lines
\* 161-163) only sends a message, and Next covers the other voice states.
NextGuilds ==
    \/ \E t \in Tasks, g \in guilds : PlayBegin(t, g, "same")
    \/ \E t \in Tasks : PlayLockCall(t)
    \/ \E t \in Tasks, found \in BOOLEAN : PlaySearch(t, found)
    \/ \E t \in Tasks : QocRead(t)
    \/ \E t \in Tasks : QocWrite(t)
    \/ \E t \in Tasks : PlayLockQueue(t)
    \/ \E t \in Tasks : PlayEnqueue(t)
    \/ \E t \in Tasks, ok \in BOOLEAN : PlayResolve(t, ok)
    \/ \E t \in Tasks : PlayFinish(t)
    \/ \E t \in Tasks, g \in guilds : SkipBegin(t, g)
    \/ \E t \in Tasks : SkipLockCall(t)
    \/ \E t \in Tasks : SkipLockQueue(t)
    \/ \E s \in Songs : TrackEnd(s)
    \/ \E s \in Songs : ActUpgrade(s)
    \/ \E s \in Songs : ActShift(s)
    \/ \E s \in Songs, ok \in BOOLEAN : ActResolve(s, ok)
    \/ \E s \in Songs : ActStart(s)

SpecGuilds == InitGuilds /\ [][NextGuilds]_vars

\* ------------------------------------------------------------------ claims

\* The queue objects of a guild that somebody refers to: the registry, a command
\* task that got one from queue_or_create, an end notifier.
QueueRefs(g) ==
    {map[g]} \cup {task[t].q : t \in {u \in Tasks : task[u].g = g}}
             \cup {song[s].q : s \in {u \in Songs : song[u].guild = g}}

\* C1: every caller of queue_or_create for one guild gets the same queue object:
\* an entry of the registry is never replaced, so no two holders refer to
\* different queue objects of one guild.
C1_OneQueuePerGuild ==
    \A g \in Guilds : Cardinality(QueueRefs(g) \ {NoObj}) <= 1

Procs == {TaskId(t) : t \in Tasks} \cup {CbId(s) : s \in Songs}

\* The guard a task or callback is suspended on, if any.
WaitsQueue(p, o) ==
    \/ \E t \in Tasks : p = TaskId(t) /\ task[t].pc = "lock_queue" /\ task[t].q = o
    \/ \E s \in Songs : p = CbId(s) /\ song[s].cb = "wait_queue" /\ song[s].q = o

WaitsCall(p, c) ==
    \/ \E t \in Tasks : p = TaskId(t) /\ task[t].pc = "lock_call" /\ task[t].call = c
    \/ \E s \in Songs : p = CbId(s) /\ song[s].cb = "wait_call" /\ song[s].call = c

\* C2: no state has one task holding the call-handle guard and waiting for the
\* guild queue guard while another holds that queue guard and waits for that
\* call-handle guard.
C2_NoDeadlock ==
    ~ \E a \in Procs, b \in Procs, c \in Calls, o \in Objs :
        /\ callLock[c] = a /\ WaitsQueue(a, o)
        /\ qLock[o] = b /\ WaitsCall(b, c)

\* C3: on a queue object from which no track has been promoted yet, the track a
\* play command started immediately is current (reported as playing now, started
\* once) and every pending track was reported the position that is its 1-based
\* rank; from the test of now_playing to the mutation the play command holds the
\* queue guard.
C3_PositionIsRank ==
    /\ \A o \in Objs : promoted[o] = <<>> =>
          /\ now_playing[o] # NoSong =>
                song[now_playing[o]].pos = 0 /\ song[now_playing[o]].starts = 1
          /\ \A i \in 1..Len(queue[o]) : song[queue[o][i]].pos = i
    /\ \A t \in Tasks :
          task[t].cmd = "play" /\ task[t].pc \in {"enqueue", "resolve", "playing_msg"}
             => qLock[task[t].q] = TaskId(t)

C3_Witness ==
    \E o \in Objs : promoted[o] = <<>> /\ now_playing[o] # NoSong /\ Len(queue[o]) = 2

\* The slots that hold a song: as current of a queue, or at an index of a pending list.
CurrentSlots(s) == {o \in Objs : now_playing[o] = s}

PendingSlots(s) ==
    {x \in Objs \X (1..MaxSongs) : x[2] <= Len(queue[x[1]]) /\ queue[x[1]][x[2]] = s}

\* C4: the pending list of a queue is, in order, the tracks whose push_back
\* completed and that were not promoted yet, promotion takes them in that same
\* order, and no track is in two slots.
C4_FifoOrder ==
    /\ \A o \in Objs : enqLog[o] = promoted[o] \o queue[o]
    /\ \A s \in Songs : Cardinality(CurrentSlots(s)) + Cardinality(PendingSlots(s)) <= 1

C4_Witness ==
    \E o \in Objs : Len(promoted[o]) >= 1 /\ Len(queue[o]) >= 1

\* A callback of song s takes its step.
ActStep(s) ==
    /\ song'[s].cb # song[s].cb
    /\ song[s].cb \in Ended \cup {"wait_queue", "resolve", "wait_call"}

\* The callback locks the queue and shifts it: the head of pending becomes current
\* and the rest stays; on an empty pending list the queue is left idle and
\* nothing is started.
C5_ShiftPromotesHead(s) ==
    song[s].cb = "wait_queue" /\ ActStep(s) =>
        LET o == song[s].q
        IN IF queue[o] = <<>>
             THEN /\ now_playing'[o] = NoSong /\ queue'[o] = <<>>
                  /\ song'[s].cb = "done"
                  /\ \A n \in Songs : song'[n].starts = song[n].starts
             ELSE now_playing'[o] = Head(queue[o]) /\ queue'[o] = Tail(queue[o])

\* The callback returns with the promoted track H current and started exactly
\* once, its own end notifier wired.
C5_FinishStarted(s) ==
    LET o == song[s].q
        H == now_playing[o]
    IN /\ now_playing'[o] = H /\ queue'[o] = queue[o]
       /\ song'[H].starts = 1 /\ song'[H].cb = "playing" /\ song'[H].handle
       /\ song'[H].q = o /\ song'[H].call = song[s].call

\* C5 as claimed: whenever the callback of the ended current track ran with the
\* call alive and pending = [H] ++ rest, it finishes with current = H,
\* pending = rest and H started exactly once; with pending empty it leaves the
\* queue idle and starts nothing.
C5_CallbackStartsHead ==
    [][\A s \in Songs :
          /\ C5_ShiftPromotesHead(s)
          /\ (song[s].cb \in {"resolve", "wait_call"} /\ song'[s].cb = "done")
                => C5_FinishStarted(s)]_vars

\* C5 as amended: the same, H being started exactly once when its audio source
\* resolved; when the resolution failed the callback returns with H current,
\* pending = rest and H not started.
C5_CallbackStartsResolvedHead ==
    [][\A s \in Songs :
          /\ C5_ShiftPromotesHead(s)
          /\ (song[s].cb = "wait_call" /\ song'[s].cb = "done") => C5_FinishStarted(s)
          /\ (song[s].cb = "resolve" /\ song'[s].cb = "done") =>
                LET o == song[s].q
                    H == now_playing[o]
                IN /\ now_playing'[o] = H /\ queue'[o] = queue[o]
                   /\ song'[H].starts = 0 /\ song'[H].cb = "none"]_vars

C5_Witness ==
    \E s \in Songs, o \in Objs :
        /\ song[s].cb = "done" /\ song[s].q = o
        /\ promoted[o] # <<>> /\ now_playing[o] = promoted[o][Len(promoted[o])]
        /\ song[now_playing[o]].cb = "playing" /\ song[now_playing[o]].starts = 1
        /\ queue[o] # <<>>

\* The step of a play command whose track, selected to start on an idle queue,
\* fails to resolve.
PlayFailStep(t) ==
    /\ task[t].cmd = "play" /\ task[t].pc = "resolve"
    /\ song'[task[t].song].fail = "play"

C6_FailedSongDropped ==
    \A s \in Songs : song[s].fail = "play" =>
        /\ song[s].errs = 1 /\ song[s].starts = 0
        /\ ~song[s].handle /\ song[s].cb = "none"
        /\ CurrentSlots(s) = {} /\ PendingSlots(s) = {}

C7_UserErrorNoMutation ==
    [][\A t \in Tasks :
          task[t].cmd = "play" /\ ~task[t].samevc /\ task'[t] # task[t] =>
             /\ now_playing' = now_playing /\ queue' = queue
             /\ \A s \in Songs : song'[s].starts = song[s].starts]_vars

\* The guilds on whose behalf a step is taken: that of the command task that
\* moves, else that of the tracks whose notifier or transport state moves.
ActorGuilds ==
    LET moved == {t \in Tasks : task'[t] # task[t]}
    IN IF moved # {}
         THEN ({task[t].g : t \in moved} \cup {task'[t].g : t \in moved}) \ {0}
         ELSE {song[s].guild : s \in {n \in Songs : song'[n] # song[n]}}

\* What the registry holds for a guild and what its queue objects hold.
GuildQueues(g) ==
    <<map[g], [k \in 1..MaxObjs |-> <<now_playing[<<g, k>>], queue[<<g, k>>]>>]>>

\* C8: every track in a queue of guild Y (current or pending) was requested in
\* guild Y, and a step taken for guild X changes nothing in the registry entry
\* and the queues of a guild Y other than X.
C8_GuildIsolation ==
    /\ [](\A o \in Objs :
            /\ now_playing[o] # NoSong => song[now_playing[o]].guild = o[1]
            /\ \A i \in 1..Len(queue[o]) : song[queue[o][i]].guild = o[1])
    /\ [][\A g \in Guilds : GuildQueues(g)' # GuildQueues(g) => ActorGuilds = {g}]_vars

C8_Witness ==
    \E x \in Objs, y \in Objs :
        /\ x[1] # y[1]
        /\ now_playing[x] # NoSong /\ now_playing[y] # NoSong
        /\ queue[x] # <<>>

\* C9: no step of a skip command changes now_playing or queue of any queue; every
\* change of them is made by a step of a play command or by the shift of an
\* end-of-track callback.
C9_SkipLeavesQueue ==
    [][/\ \A t \in Tasks :
             (task[t].cmd = "skip" \/ task'[t].cmd = "skip") /\ task'[t] # task[t]
                => now_playing' = now_playing /\ queue' = queue
       /\ (now_playing' # now_playing \/ queue' # queue) =>
             \/ \E t \in Tasks : task[t].cmd = "play" /\ task'[t] # task[t]
             \/ \E s \in Songs : song[s].cb = "wait_queue" /\ ActStep(s)]_vars

C9_Witness ==
    \E o \in Objs :
        /\ now_playing[o] # NoSong /\ song[now_playing[o]].cb = "stopped"
        /\ \A t \in Tasks : task[t].cmd # "skip"

\* C10: a callback that runs when no strong reference to its Call is left is a
\* no-op: it ends at once, starts nothing, says nothing, takes no guard and
\* leaves every queue as it was.
C10_StaleIsNoop ==
    [][\A s \in Songs :
          song[s].cb \in Ended /\ ~HasStrong(song[s].call) /\ song'[s] # song[s] =>
             /\ song' = [song EXCEPT ![s].cb = "stale"]
             /\ now_playing' = now_playing /\ queue' = queue
             /\ qLock' = qLock /\ callLock' = callLock]_vars

C10_Witness ==
    \E s \in Songs : song[s].cb = "stale" /\ now_playing[song[s].q] = s

\* ------------------------------------------------- progress of the queue

\* The steps of a command task after its command was received: the worker pool
\* runs a ready task, and a tokio Mutex hands the guard to its waiters in turn.
TaskStep(t) ==
    \/ PlayLockCall(t) \/ (\E found \in BOOLEAN : PlaySearch(t, found))
    \/ QocRead(t) \/ QocWrite(t) \/ PlayLockQueue(t) \/ PlayEnqueue(t)
    \/ PlayResolve(t, TRUE) \/ PlayFinish(t)
    \/ SkipLockCall(t) \/ SkipLockQueue(t)

\* The steps of a started track: its end on the transport and its end notifier.
SongStep(s) ==
    \/ TrackEnd(s) \/ ActUpgrade(s) \/ ActShift(s) \/ ActResolve(s, TRUE) \/ ActStart(s)

\* One guild, play and skip commands and end-of-track callbacks; the voice call
\* stays and every audio source resolves.
NextLive ==
    \/ \E t \in Tasks, g \in guilds, vc \in VoiceStates : PlayBegin(t, g, vc)
    \/ \E t \in Tasks : PlayLockCall(t)
    \/ \E t \in Tasks, found \in BOOLEAN : PlaySearch(t, found)
    \/ \E t \in Tasks : QocRead(t)
    \/ \E t \in Tasks : QocWrite(t)
    \/ \E t \in Tasks : PlayLockQueue(t)
    \/ \E t \in Tasks : PlayEnqueue(t)
    \/ \E t \in Tasks : PlayResolve(t, TRUE)
    \/ \E t \in Tasks : PlayFinish(t)
    \/ \E t \in Tasks, g \in guilds : SkipBegin(t, g)
    \/ \E t \in Tasks : SkipLockCall(t)
    \/ \E t \in Tasks : SkipLockQueue(t)
    \/ \E s \in Songs : TrackEnd(s)
    \/ \E s \in Songs : ActUpgrade(s)
    \/ \E s \in Songs : ActShift(s)
    \/ \E s \in Songs : ActResolve(s, TRUE)
    \/ \E s \in Songs : ActStart(s)

\* Fair scheduling: every task and every callback that can take a step again and
\* again takes it, and every started track ends.  Commands are sent at will.
Fairness ==
    /\ \A t \in Tasks : SF_vars(TaskStep(t))
    /\ \A s \in Songs : SF_vars(SongStep(s))

SpecLive == Init /\ [][NextLive]_vars /\ Fairness

\* A track waits in the pending list of a queue.
Pending(s) == \E o \in Objs : \E i \in 1..Len(queue[o]) : queue[o][i] = s

AllIdle == \A o \in Objs : now_playing[o] = NoSong /\ queue[o] = <<>>

\* C11: with the call in place, every source resolving and fair scheduling, a track
\* that waits in pending is eventually started on the transport, and the queue
\* eventually drains to idle, whatever play and skip commands run meanwhile.
C11_QueueDrains ==
    /\ \A s \in Songs : Pending(s) ~> (song[s].starts > 0)
    /\ <>[]AllIdle

\* ------------------------------------------- a resolution that never returns

\* The guild whose member a command task serves when each guild has its own
\* sender of commands.
GuildOf(t) == t

\* Two guilds served at once by every command that takes a guard, each guild by
\* its own stream of commands and its own callbacks; a task or a callback that is
\* inside as_input (pc "resolve") may stay there for ever.
\* As in NextGuilds, the requester sits in the bot's channel.
NextHung ==
    \/ \E t \in Tasks : PlayBegin(t, GuildOf(t), "same")
    \/ \E t \in Tasks : PlayLockCall(t)
    \/ \E t \in Tasks, found \in BOOLEAN : PlaySearch(t, found)
    \/ \E t \in Tasks : QocRead(t)
    \/ \E t \in Tasks : QocWrite(t)
    \/ \E t \in Tasks : PlayLockQueue(t)
    \/ \E t \in Tasks : PlayEnqueue(t)
    \/ \E t \in Tasks, ok \in BOOLEAN : PlayResolve(t, ok)
    \/ \E t \in Tasks : PlayFinish(t)
    \/ \E t \in Tasks : SkipBegin(t, GuildOf(t))
    \/ \E t \in Tasks : SkipLockCall(t)
    \/ \E t \in Tasks : SkipLockQueue(t)
    \/ \E t \in Tasks : DisplayBegin(t, GuildOf(t))
    \/ \E t \in Tasks : DisplayLockQueue(t)
    \/ \E t \in Tasks : DisplaySend(t)
    \/ \E s \in Songs : TrackEnd(s)
    \/ \E s \in Songs : ActUpgrade(s)
    \/ \E s \in Songs : ActShift(s)
    \/ \E s \in Songs, ok \in BOOLEAN : ActResolve(s, ok)
    \/ \E s \in Songs : ActStart(s)

SpecHung == InitGuilds /\ [][NextHung]_vars

\* The guild a task or a callback works for.
ProcGuild(p) == IF p[1] = "task" THEN task[p[2]].g ELSE song[p[2]].guild

\* A task or callback that is inside an audio-source resolution which has not
\* returned: it holds the queue guard of its guild (and play the call guard too).
Resolving(p) ==
    \/ \E t \in Tasks : p = TaskId(t) /\ task[t].pc = "resolve"
    \/ \E s \in Songs : p = CbId(s) /\ song[s].cb = "resolve"

EnqueueOrStart(o) ==
    /\ nextSong <= MaxSongs
    /\ nextSong' = nextSong + 1
    /\ IF now_playing[o] # NoSong
         THEN /\ queue' = [queue EXCEPT ![o] = push_back(@, nextSong)]
              /\ enqLog' = [enqLog EXCEPT ![o] = Append(@, nextSong)]
              /\ UNCHANGED now_playing
         ELSE /\ now_playing' = [now_playing EXCEPT ![o] = nextSong]
              /\ UNCHANGED <<queue, enqLog>>
    /\ UNCHANGED <<managerCall, callsMade, callLock, map, objsMade, qLock, task, song,
                   promoted, guilds, duration, formatted>>

\* ServerQueue::shift_queue applied to a ServerQueue.
ShiftQueue(o) ==
    /\ LET r == shift_queue(now_playing[o], queue[o])
       IN /\ now_playing' = [now_playing EXCEPT ![o] = r.now_playing]
          /\ queue' = [queue EXCEPT ![o] = r.queue]
          /\ promoted' = [promoted EXCEPT ![o] =
                            IF r.now_playing = NoSong THEN @ ELSE Append(@, r.now_playing)]
    /\ UNCHANGED <<managerCall, callsMade, callLock, map, objsMade, qLock, task, song,
                   nextSong, enqLog, guilds, duration, formatted>>

\* Idle, empty queues and any sequence of the two operations on them.
InitQueue == InitWith({})

NextQueue ==
    \/ \E o \in Objs : EnqueueOrStart(o)
    \/ \E o \in Objs : ShiftQueue(o)

SpecQueue == InitQueue /\ [][NextQueue]_vars

Idle == [now_playing |-> NoSong, queue |-> <<>>]

\* What shift_queue is claimed to return.
C13_Cases(np, qu) ==
    LET r == shift_queue(np, qu)
    IN /\ qu # <<>> => r.now_playing = Head(qu) /\ r.queue = Tail(qu)
       /\ qu = <<>> => r = Idle
       /\ shift_queue(Idle.now_playing, Idle.queue) = Idle

\* C13: shift_queue on current = A, pending = [B, C] gives current = B,
\* pending = [C]; on an empty pending list it gives none/empty, and on the idle
\* empty queue it changes nothing.  Stated of the function on every reachable
\* queue and of every step that takes a track out of a queue.
C13_ShiftForward ==
    /\ [](\A o \in Objs : C13_Cases(now_playing[o], queue[o]))
    /\ [][\A o \in Objs :
            <<now_playing[o], queue[o]>>' # <<now_playing[o], queue[o]>>
               /\ nextSong' = nextSong =>
                  IF queue[o] = <<>>
                    THEN now_playing'[o] = NoSong /\ queue'[o] = <<>>
                    ELSE now_playing'[o] = Head(queue[o]) /\ queue'[o] = Tail(queue[o])]_vars

\* current = A, pending = [B, C] was shifted to current = B, pending = [C].
C13_Witness ==
    \E o \in Objs :
        /\ Len(enqLog[o]) = 2 /\ promoted[o] = <<enqLog[o][1]>>
        /\ now_playing[o] = enqLog[o][1] /\ queue[o] = <<enqLog[o][2]>>

\* n applications of shift_queue, and the tracks that were current on the way.
RECURSIVE ShiftTimes(_, _, _)
ShiftTimes(np, qu, n) ==
    LET cur == IF np # NoSong THEN <<np>> ELSE <<>>
    IN IF n = 0
         THEN [now_playing |-> np, queue |-> qu, seen |-> cur]
         ELSE LET r == shift_queue(np, qu)
                  rest == ShiftTimes(r.now_playing, r.queue, n - 1)
              IN [rest EXCEPT !.seen = cur \o @]

\* The tracks a queue holds, in the order they were submitted to it.
Held(o) == (IF now_playing[o] # NoSong THEN <<now_playing[o]>> ELSE <<>>) \o queue[o]

\* C14: a queue that holds the N tracks enqueued on it is idle after N + 1
\* applications of shift_queue, each of the N tracks was current exactly once on
\* the way, in submission order, and the tracks promoted so far are the first
\* tracks pushed to pending, in order.
C14_RoundTrip ==
    \A o \in Objs :
        LET N == Len(Held(o))
            r == ShiftTimes(now_playing[o], queue[o], N + 1)
        IN /\ r.now_playing = NoSong /\ r.queue = <<>>
           /\ r.seen = Held(o)
           /\ \A i, j \in 1..Len(r.seen) : r.seen[i] = r.seen[j] => i = j
           /\ enqLog[o] = promoted[o] \o queue[o]

\* A queue that got every track, one started at once and the others pushed to
\* pending, and was shifted until idle: each pushed track has been promoted.
C14_Witness ==
    \E o \in Objs :
        /\ now_playing[o] = NoSong /\ queue[o] = <<>>
        /\ Len(enqLog[o]) >= 2 /\ promoted[o] = enqLog[o]

\* --------------------------------------------------------- format_duration

Durations == 0..MaxSeconds

\* format!("{:02}", n): decimal, padded with a zero to two digits.
Pad2(n) == IF n < 10 THEN "0" \o ToString(n) ELSE ToString(n)

\* format_duration, lines 119-129.
format_duration(secs) ==
    LET mins == secs \div 60
        hours == mins \div 60
    IN IF hours # 0
         THEN Pad2(hours) \o ":" \o Pad2(mins % 60) \o ":" \o Pad2(secs % 60)
         ELSE Pad2(mins % 60) \o ":" \o Pad2(secs % 60)

\* A display or play command formats the duration of a track.
FormatDuration ==
    /\ formatted = ""
    /\ formatted' = format_duration(duration)
    /\ UNCHANGED <<managerCall, callsMade, callLock, map, objsMade, qLock, now_playing,
                   queue, task, song, nextSong, enqLog, promoted, guilds, duration>>

\* Any track duration within the bound.
InitFormat == InitProgram({}) /\ duration \in Durations /\ formatted = ""

NextFormat == FormatDuration

SpecFormat == InitFormat /\ [][NextFormat]_vars

\* The rendering the claim gives: hours:minutes:seconds from one hour on, else
\* minutes:seconds with the minutes as they are and the seconds on two digits.
C15_Claimed(secs) ==
    LET mins == secs \div 60
    IN IF secs >= 3600
         THEN Pad2(mins \div 60) \o ":" \o Pad2(mins % 60) \o ":" \o Pad2(secs % 60)
         ELSE ToString(mins) \o ":" \o Pad2(secs % 60)

\* C15: format_duration renders s seconds as h:mm:ss from 3600 s on and as m:ss
\* below, so that 45 s gives 0:45, 125 s gives 2:05 and 3725 s gives 01:02:05.
C15_FormatDuration ==
    formatted # "" =>
        /\ formatted = C15_Claimed(duration)
        /\ duration = 45 => formatted = "0:45"
        /\ duration = 125 => formatted = "2:05"
        /\ duration = 3725 => formatted = "01:02:05"

\* ------------------------------------------------------------ guard order

\* C16: no task or callback attempts to acquire a guild queue guard while it
\* holds a call-handle guard (the queue guard is taken first, the call guard
\* second).
C16_QueueGuardFirst ==
    ~ \E p \in Procs, o \in Objs, c \in Calls : WaitsQueue(p, o) /\ callLock[c] = p

\* ------------------------------------- resolution failure in the callback

\* C17: when as_input fails in the callback for the track n it just promoted,
\* the callback returns having started nothing and shifted nothing more: n is
\* still current, pending is as the shift left it, and from then on n stays
\* current and unstarted (the next pending track is not taken in its place).
C17_FailedPromotionStays ==
    /\ [][\A s \in Songs :
            song[s].cb = "resolve" /\ song'[s].cb = "done" =>
               LET o == song[s].q
                   n == now_playing[o]
               IN /\ now_playing' = now_playing /\ queue' = queue
                  /\ now_playing'[o] = n /\ song'[n].fail = "callback"
                  /\ \A x \in Songs : song'[x].starts = song[x].starts
                                       /\ song'[x].handle = song[x].handle]_vars
    /\ [](\A n \in Songs : song[n].fail = "callback" =>
            /\ CurrentSlots(n) # {} /\ PendingSlots(n) = {}
            /\ song[n].starts = 0 /\ song[n].errs = 1)

\* The promoted track failed to resolve and is current, with a track behind it.
C17_Witness ==
    \E o \in Objs :
        /\ now_playing[o] # NoSong /\ song[now_playing[o]].fail = "callback"
        /\ queue[o] # <<>> /\ qLock[o] = NoOne

\* ------------------------------------------------ invariants of the queue

\* C18: whenever the queue guard is free, the current track (if any) has a
\* playback handle and no pending track has one, so that skip never unwraps the
\* handle of a current track that has none.
C18_CurrentHasHandle ==
    \A o \in Objs : qLock[o] = NoOne =>
        /\ now_playing[o] # NoSong => song[now_playing[o]].handle
        /\ \A i \in 1..Len(queue[o]) : ~song[queue[o][i]].handle

\* C19: whenever the queue guard is free, pending is non-empty only if a track
\* is current.
C19_NoIdleWithPending ==
    \A o \in Objs : qLock[o] = NoOne /\ queue[o] # <<>> => now_playing[o] # NoSong

\* Tracks wait behind a current track after a callback has shifted the queue
\* and a skip has stopped a track of it.
C19_Witness ==
    \E o \in Objs :
        /\ qLock[o] = NoOne /\ queue[o] # <<>> /\ promoted[o] # <<>>
        /\ song[promoted[o][1]].cb \in {"stopped", "stale"}

\* ---------------------------------------------------------------- display

\* C20: no display command (now_playing, queue) is at its outbound message send
\* while it holds a guild queue guard.
C20_SendWithoutGuard ==
    \A t \in Tasks : task[t].cmd = "display" /\ task[t].pc = "send" =>
        \A o \in Objs : qLock[o] # TaskId(t)

\* ------------------------------------------------------ one track per call

\* A play command has handed the track to the transport and has yet to write
\* now_playing = Some(song), which it does before it drops the queue guard.
BeingRecorded(s) ==
    \E t \in Tasks : task[t].pc = "playing_msg" /\ task[t].song = s
                        /\ qLock[task[t].q] = TaskId(t)

\* C21: at most one track plays on a guild's voice call at a time, and a playing
\* track is the current track of the queue the registry holds for its guild (or
\* is being recorded as such by the play command that started it): no second
\* track is started while an earlier one has not ended.
C21_OneTrackPerCall ==
    /\ \A c \in Calls : Cardinality(PlayingOn(c)) <= 1
    /\ \A s \in Songs : song[s].cb = "playing" /\ ~BeingRecorded(s) =>
          /\ map[song[s].guild] # NoObj
          /\ now_playing[map[song[s].guild]] = s

\* ------------------------------------------------- a track that ends early

\* C22: a play command holds the queue guard from its test of now_playing until
\* it has written now_playing = Some(T), so the callback of T shifts the queue
\* only when T is recorded as current, however early T ends; and once the
\* callback of T has shifted, T is no longer current (T is not left as current
\* with its callback spent).
C22_ShiftAfterRecorded ==
    /\ [](\A t \in Tasks :
            task[t].cmd = "play" /\ task[t].pc \in {"resolve", "playing_msg"}
               => qLock[task[t].q] = TaskId(t))
    /\ [][\A s \in Songs :
            song[s].cb = "wait_queue" /\ song'[s].cb # "wait_queue"
               => now_playing[song[s].q] = s]_vars
    /\ [](\A s \in Songs :
            song[s].cb \in {"resolve", "wait_call", "done"} => now_playing[song[s].q] # s)

\* T has ended and its callback waits for the queue guard, which the play
\* command that started T still holds, T not yet recorded as current.
C22_Witness ==
    \E t \in Tasks :
        /\ task[t].pc = "playing_msg" /\ qLock[task[t].q] = TaskId(t)
        /\ song[task[t].song].cb = "wait_queue"
        /\ now_playing[task[t].q] = NoSong

\* ------------------------------------------------------- one skip, one shift

\* The callback of a track has taken the queue guard and shifted the queue.
HasShifted(s) == song[s].cb \in {"resolve", "wait_call", "done"}

\* The tracks a step stops (Call::stop, or the Stop command sent to the handle).
StoppedNow(s) == song[s].cb # "stopped" /\ song'[s].cb = "stopped"

\* C23: one skip advances the queue by one position.  A step of a skip command
\* stops at most one track of a queue, the current one, and the Stop command it
\* sends after Call::stop finds the track stopped already; the callback of the
\* stopped track shifts the queue by one (current = head of pending, pending =
\* rest), a queue is never promoted from more often than tracks of it have ended
\* and had their callback shift, and the shift for a stopped track does come.
C23_SkipAdvancesOnce ==
    /\ [][\A t \in Tasks :
            task[t].cmd = "skip" /\ task'[t] # task[t] =>
               /\ \A o \in Objs :
                     Cardinality({s \in Songs : StoppedNow(s) /\ song[s].q = o}) <= 1
               /\ \A s \in Songs : StoppedNow(s) => now_playing[song[s].q] = s
               /\ task[t].pc = "lock_queue" => song' = song]_vars
    /\ [][\A s \in Songs : C5_ShiftPromotesHead(s)]_vars
    /\ [](\A o \in Objs :
            Len(promoted[o]) <= Cardinality({s \in Songs : song[s].q = o /\ HasShifted(s)}))
    /\ \A s \in Songs : (song[s].cb = "stopped") ~> HasShifted(s)

\* A skip has stopped the current track A of a queue with pending = [B, C] and
\* has returned; the callback of A has yet to shift.
C23_Witness ==
    \E o \in Objs :
        /\ now_playing[o] # NoSong /\ song[now_playing[o]].cb = "stopped"
        /\ Len(queue[o]) = 2
        /\ \A t \in Tasks : task[t].cmd # "skip"


====
